---- MODULE Spec2Model ----
(***************************************************************************)
(* Model of chiller_analyzer_pro.py, a Streamlit script that is executed   *)
(* top to bottom once per user interaction (one "computation pass").       *)
(*                                                                         *)
(* Units.  Capacities, powers and loads are integers counting hundredths   *)
(* of a kW (the load profile is rounded to 2 decimals by the script).      *)
(* COP, EER and kW/Ton as stored in chiller_data are integers counting     *)
(* hundredths, because the script stores round(x, 2).  Arithmetic on these *)
(* decimals is exact; the last-bit rounding of binary floating point in    *)
(* the additions and subtractions of the script is not modelled.           *)
(*                                                                         *)
(* Inputs.  Capacities and powers are > 0, so no division raises.  The     *)
(* names, the pump and the cooling tower widgets keep their defaults.  A   *)
(* pass runs to its end before the next interaction starts another one.    *)
(***************************************************************************)
EXTENDS Integers, Sequences, FiniteSets, TLC

\* ------------------------------------------------------------------ bounds
\* The slider allows 1..5 chillers; the model explores 1..MaxChillers.
MaxChillers == 3
\* SpecAlloc: capacities are 1..MaxCapUnits and demands 0..MaxDemandUnits
\* multiples of AllocUnit, over AllocHours load points.
MaxCapUnits == 2
MaxDemandUnits == 5
AllocHours == 2

\* -------------------------------------------------------- program constants
HoursPerDay == 24
CopThreshold == 350          \* 3.5, in hundredths
PumpThreshold == 60          \* percent
DefaultCap == 10000          \* 100.0 kW
DefaultPower == 6000         \* 60.0 kW
DefaultBaseLoad == 600
DefaultAmbient == 35
DefaultNumChillers == 2
FlowCenti == 2               \* 0.02 m3/s, in hundredths
PumpHead == 30
PumpPower == 6
CwIn == 35
CwOut == 30
WetBulb == 28

UnitSystems == {"SI", "I-P"}
\* Values the number_input widgets of a chiller take in the model
\* (capacity, power), in hundredths of a kW.
ChillerChoices ==
    { <<10000, 6000>>, <<10000, 10000>>, <<34000, 10000>>,
      <<34970, 10000>>, <<35000, 10000>> }
BaseLoadChoices == {300, 600}
AmbientChoices == {30, 35}

ChillerNames == <<"Chiller 1", "Chiller 2", "Chiller 3", "Chiller 4", "Chiller 5">>
\* value=f"Chiller {i+1}" of the name text_input
DefaultName(k) == ChillerNames[k]

\* ------------------------------------------------------------- arithmetic
\* Nearest integer to n/d, ties to even (Python's round), n >= 0, d > 0.
RoundDiv(n, d) ==
    LET q == n \div d
        r == n % d
    IN  IF 2 * r > d THEN q + 1
        ELSE IF 2 * r < d THEN q
        ELSE IF q % 2 = 0 THEN q ELSE q + 1

\* round(num / den, 2), as a count of hundredths.
Round2(num, den) ==
    LET q == num \div den
        r == num % den
    IN  100 * q + RoundDiv(100 * r, den)

\* Lines 27-34: the three metrics of one chiller, each as round(x, 2).
\* I-P: eer = cap*12000/(power*1000), cop = eer/3.412, kw_per_ton = power/cap
\* SI : cop = cap/power, eer = cop*3.412, kw_per_ton = 3.5/cop
CopOf(unit, cap, power) ==
    IF unit = "I-P" THEN Round2(cap * 3000, power * 853)
    ELSE Round2(cap, power)

EerOf(unit, cap, power) ==
    IF unit = "I-P" THEN Round2(cap * 12, power)
    ELSE Round2(cap * 853, power * 250)

KwPerTonOf(unit, cap, power) ==
    IF unit = "I-P" THEN Round2(power, cap)
    ELSE Round2(7 * power, 2 * cap)

\* Lines 35-42: the dict appended to chiller_data.
ChillerRecord(unit, name, cap, power) ==
    [ Name |-> name, Capacity |-> cap, Power |-> power,
      COP |-> CopOf(unit, cap, power),
      EER |-> EerOf(unit, cap, power),
      kWTon |-> KwPerTonOf(unit, cap, power) ]

\* Line 89: load_factor = 0.6 + 0.4*exp(-((hour-14)**2)/20), in units of
\* 1e-8, tabulated for hour = 0..23 (entry hour+1).
LoadFactorE8 ==
    << 60002218, 60008556, 60029863, 60094314, 60269518, 60696895,
       61630488, 63451743, 66611956, 71460192, 77973159, 85505126,
       92749230, 98049177, 100000000, 98049177, 92749230, 85505126,
       77973159, 71460192, 66611956, 63451743, 61630488, 60696895 >>

\* Lines 89-91: round(base_load * load_factor * temp_factor, 2) in hundredths
\* of a kW, with temp_factor = 1 + (ambient_temp - 30)*0.02 = (ambient+20)/50.
\* The product is split so that every intermediate stays below 2^31.
Demand(base, ambient, h) ==
    LET K  == 2 * base * (ambient + 20)
        hi == LoadFactorE8[h + 1] \div 10000
        lo == LoadFactorE8[h + 1] % 10000
        X  == K * hi + ((K * lo) \div 10000)
    IN  (X + 5000) \div 10000

\* Lines 87-88: datetime(2025, 7, 25, hour).strftime("%H:%M"): the date is
\* dropped, the label is the hour and minute 0.
Timestamp(h) == <<h, 0>>

VARIABLES
    \* widget values (the user's inputs)
    unit_system, num_chillers, cap_in, power_in, base_load, ambient_temp, generate,
    \* the script
    pc, i, chiller_data, pump_eff, CT_range, approach, effectiveness, messages,
    hour, profile, timestamps, total_capacity, active_chillers, remaining_load,
    records, cop_curves, report, export_status,
    \* history: the records of the previous pass, when it had the same inputs
    prev_valid, prev_records

inputs == << unit_system, num_chillers, cap_in, power_in, base_load, ambient_temp, generate >>
script == << pc, i, chiller_data, pump_eff, CT_range, approach, effectiveness, messages,
             hour, profile, timestamps, total_capacity, active_chillers, remaining_load,
             records, cop_curves, report, export_status >>
history == << prev_valid, prev_records >>
vars == << inputs, script, history >>

\* Lines 51-54: density*g in thousandths (SI 1000*9.81, I-P 62.4*1.3558*32.174)
DensityG(unit) == IF unit = "SI" THEN 9810000 ELSE 2721982

\* Lines 53-54: pump_eff = flow*head*density*g/1000/pump_power*100, in units
\* of 1e-4 percent.
PumpEfficiencyE4(unit) ==
    (FlowCenti * PumpHead * DensityG(unit)) \div (100 * PumpPower)

\* Line 65: effectiveness = CT_range/(CT_range + approach), in units of 1e-4.
EffectivenessE4(rng, app) == (rng * 10000) \div (rng + app)

\* Variant of NeedsMaintenance: the comparison is <= instead of <.
NeedsMaintenance_le(cop) == cop <= CopThreshold

\* Line 71: the test that selects the warning.
NeedsMaintenance(cop) == cop < CopThreshold

\* Lines 70-74: one message per entry of chiller_data, in list order.
ChillerMessages(cd) ==
    [ k \in 1..Len(cd) |->
        IF NeedsMaintenance(cd[k].COP)
        THEN [ kind |-> "warning", name |-> cd[k].Name, text |-> "maintenance" ]
        ELSE [ kind |-> "info", name |-> cd[k].Name, text |-> "efficient" ] ]

\* Lines 75-78: the pump and cooling tower warnings.
PlantMessages(peff, eff) ==
    (IF peff < PumpThreshold * 10000
     THEN << [ kind |-> "warning", name |-> "Main Pump", text |-> "low efficiency" ] >>
     ELSE << >>)
    \o
    (IF eff < 5000
     THEN << [ kind |-> "warning", name |-> "CT Unit 1", text |-> "low effectiveness" ] >>
     ELSE << >>)

\* Line 103: sum of the capacities of chiller_data.
RECURSIVE SumCapacity(_)
SumCapacity(cd) ==
    IF cd = << >> THEN 0
    ELSE cd[1].Capacity + SumCapacity(Tail(cd))

\* Variant of LoopBreaks: the break of line 110 is missing.
LoopBreaks_never(remaining) == FALSE

\* Line 110: the inner loop stops at the first chiller reached with no load left.
LoopBreaks(remaining) == remaining <= 0

\* Variant of AssignedLoad: every chiller reached is given its full capacity.
AssignedLoad_full(remaining, cap) == cap

\* Variant of AssignedLoad: every chiller reached is given all the load left.
AssignedLoad_all(remaining, cap) == remaining

\* Lines 114-118: the load appended for a chiller of capacity cap.
AssignedLoad(remaining, cap) ==
    IF remaining >= cap THEN cap ELSE remaining

\* Variant of RemainingAfter: line 119 (remaining_load = 0) is missing.
RemainingAfter_keep(remaining, cap) ==
    IF remaining >= cap THEN remaining - cap ELSE remaining

\* Variant of RemainingAfter: line 116 (remaining_load -= cap) is missing.
RemainingAfter_nosub(remaining, cap) ==
    IF remaining >= cap THEN remaining ELSE 0

\* Lines 116 and 119: the load left after that chiller.
RemainingAfter(remaining, cap) ==
    IF remaining >= cap THEN remaining - cap ELSE 0

\* Lines 109-119: the inner loop over chiller_data from position k on, with
\* the list built so far and the load still to place.
RECURSIVE SequenceChillers(_, _, _, _)
SequenceChillers(cd, k, active, remaining) ==
    IF k > Len(cd) \/ LoopBreaks(remaining)
    THEN [ active |-> active, remaining |-> remaining ]
    ELSE SequenceChillers(
            cd, k + 1,
            Append(active, << cd[k].Name,
                              AssignedLoad(remaining, cd[k].Capacity),
                              cd[k].COP >>),
            RemainingAfter(remaining, cd[k].Capacity))

\* Lines 128-129: cop_vals for loads 25, 50, 75, 100, in units of 1e-5:
\* COP*(1 - 0.1*(1 - l/100)) = COP*(900 + l)/1000.
CopCurve(cop) == [ n \in 1..4 |-> cop * (900 + 25 * n) ]

\* Lines 140-145: the items of the report, chillers first, then pump, tower.
ReportItems(cd, peff, rng, app) ==
    [ k \in 1..Len(cd) |-> << cd[k].Name, cd[k].COP, cd[k].EER, cd[k].kWTon >> ]
    \o << << "Main Pump", RoundDiv(peff, 100) >>,
          << "CT Unit 1", RoundDiv(rng * 10000, rng + app) >> >>

\* Variant of ChillerLoopDone: the loop ends after its first iteration.
ChillerLoopDone_early(k) == k >= 1

\* Line 22: range(num_chillers) is exhausted after k iterations.
ChillerLoopDone(k) == k >= num_chillers

\* Variant of ProfileLoopDone: range(23), the last hour is missing.
ProfileLoopDone_short(h) == h >= HoursPerDay - 1

\* Line 86: range(24) is exhausted after h iterations.
ProfileLoopDone(h) == h >= HoursPerDay

\* Variant of FreshChillerData: the list is kept from the pass before.
StaleChillerData == chiller_data

\* Line 21: chiller_data = [] at the top of every pass.
FreshChillerData == << >>

\* ------------------------------------------------------------ the script
\* The state in which a pass starts at the top of the script with the given
\* widget values: a fresh namespace and an empty page (lines 12-21).
StartPass(u, n, c, p, b, a, g) ==
    /\ unit_system' = u
    /\ num_chillers' = n
    /\ cap_in' = c
    /\ power_in' = p
    /\ base_load' = b
    /\ ambient_temp' = a
    /\ generate' = g
    /\ pc' = "chillers"
    /\ i' = 0
    /\ chiller_data' = FreshChillerData
    /\ pump_eff' = 0
    /\ CT_range' = 0
    /\ approach' = 0
    /\ effectiveness' = 0
    /\ messages' = << >>
    /\ hour' = 0
    /\ profile' = << >>
    /\ timestamps' = << >>
    /\ total_capacity' = 0
    /\ active_chillers' = << >>
    /\ remaining_load' = 0
    /\ records' = << >>
    /\ cop_curves' = << >>
    /\ report' = << >>
    /\ export_status' = "none"

\* The first pass: every widget at its default value (lines 16, 20, 25, 26,
\* 82, 83), the button not pressed.
Init ==
    /\ unit_system = "SI"
    /\ num_chillers = DefaultNumChillers
    /\ cap_in = [ k \in 1..DefaultNumChillers |-> DefaultCap ]
    /\ power_in = [ k \in 1..DefaultNumChillers |-> DefaultPower ]
    /\ base_load = DefaultBaseLoad
    /\ ambient_temp = DefaultAmbient
    /\ generate = FALSE
    /\ pc = "chillers"
    /\ i = 0
    /\ chiller_data = << >>
    /\ pump_eff = 0
    /\ CT_range = 0
    /\ approach = 0
    /\ effectiveness = 0
    /\ messages = << >>
    /\ hour = 0
    /\ profile = << >>
    /\ timestamps = << >>
    /\ total_capacity = 0
    /\ active_chillers = << >>
    /\ remaining_load = 0
    /\ records = << >>
    /\ cop_curves = << >>
    /\ report = << >>
    /\ export_status = "none"
    /\ prev_valid = FALSE
    /\ prev_records = << >>

\* Lines 22-43: one iteration of the chiller input loop.
ChillerStep ==
    /\ pc = "chillers"
    /\ i < num_chillers
    /\ chiller_data' = Append(chiller_data,
            ChillerRecord(unit_system, DefaultName(i + 1), cap_in[i + 1], power_in[i + 1]))
    /\ i' = i + 1
    /\ pc' = IF ChillerLoopDone(i + 1) THEN "pump" ELSE "chillers"
    /\ UNCHANGED << inputs, history, pump_eff, CT_range, approach, effectiveness,
                    messages, hour, profile, timestamps, total_capacity,
                    active_chillers, remaining_load, records, cop_curves, report,
                    export_status >>

\* Lines 45-55: pump efficiency.
PumpStep ==
    /\ pc = "pump"
    /\ pump_eff' = PumpEfficiencyE4(unit_system)
    /\ pc' = "tower"
    /\ UNCHANGED << inputs, history, i, chiller_data, CT_range, approach, effectiveness,
                    messages, hour, profile, timestamps, total_capacity,
                    active_chillers, remaining_load, records, cop_curves, report,
                    export_status >>

\* Lines 57-66: cooling tower range, approach and effectiveness.
TowerStep ==
    /\ pc = "tower"
    /\ CT_range' = CwIn - CwOut
    /\ approach' = CwOut - WetBulb
    /\ effectiveness' = EffectivenessE4(CwIn - CwOut, CwOut - WetBulb)
    /\ pc' = "recommend"
    /\ UNCHANGED << inputs, history, i, chiller_data, pump_eff,
                    messages, hour, profile, timestamps, total_capacity,
                    active_chillers, remaining_load, records, cop_curves, report,
                    export_status >>

\* Lines 68-78: the recommendations.
RecommendStep ==
    /\ pc = "recommend"
    /\ messages' = ChillerMessages(chiller_data) \o PlantMessages(pump_eff, effectiveness)
    /\ pc' = "load_inputs"
    /\ UNCHANGED << inputs, history, i, chiller_data, pump_eff, CT_range, approach,
                    effectiveness, hour, profile, timestamps, total_capacity,
                    active_chillers, remaining_load, records, cop_curves, report,
                    export_status >>

\* Lines 80-85: the sliders are read, profile = [] and timestamps = [].
LoadInputsStep ==
    /\ pc = "load_inputs"
    /\ profile' = << >>
    /\ timestamps' = << >>
    /\ hour' = 0
    /\ pc' = "profile"
    /\ UNCHANGED << inputs, history, i, chiller_data, pump_eff, CT_range, approach,
                    effectiveness, messages, total_capacity,
                    active_chillers, remaining_load, records, cop_curves, report,
                    export_status >>

\* Lines 86-91: one iteration of the load profile loop.
ProfileStep ==
    /\ pc = "profile"
    /\ hour < HoursPerDay
    /\ timestamps' = Append(timestamps, Timestamp(hour))
    /\ profile' = Append(profile, Demand(base_load, ambient_temp, hour))
    /\ hour' = hour + 1
    /\ pc' = IF ProfileLoopDone(hour + 1) THEN "seq_header" ELSE "profile"
    /\ UNCHANGED << inputs, history, i, chiller_data, pump_eff, CT_range, approach,
                    effectiveness, messages, total_capacity,
                    active_chillers, remaining_load, records, cop_curves, report,
                    export_status >>

\* Lines 93-104: the profile is plotted and the total capacity shown.
SequencingHeaderStep ==
    /\ pc = "seq_header"
    /\ total_capacity' = SumCapacity(chiller_data)
    /\ i' = 0
    /\ pc' = "sequencing"
    /\ UNCHANGED << inputs, history, chiller_data, pump_eff, CT_range, approach,
                    effectiveness, messages, hour, profile, timestamps,
                    active_chillers, remaining_load, records, cop_curves, report,
                    export_status >>

\* Lines 106-122: one iteration of the sequencing loop: the inner loop over
\* the chillers, then the hour's lines written to the page.
SequencingStep ==
    /\ pc = "sequencing"
    /\ i < Len(profile)
    /\ LET load == profile[i + 1]
           res  == SequenceChillers(chiller_data, 1, << >>, load)
       IN  /\ active_chillers' = res.active
           /\ remaining_load' = res.remaining
           /\ records' = Append(records,
                  [ timestamp |-> timestamps[i + 1], load |-> load,
                    entries |-> res.active ])
    /\ i' = i + 1
    /\ pc' = IF i + 1 >= Len(profile) THEN "chart" ELSE "sequencing"
    /\ UNCHANGED << inputs, history, chiller_data, pump_eff, CT_range, approach,
                    effectiveness, messages, hour, profile, timestamps,
                    total_capacity, cop_curves, report, export_status >>

\* Lines 124-135: the COP against load curves.
ChartStep ==
    /\ pc = "chart"
    /\ cop_curves' = [ k \in 1..Len(chiller_data) |-> CopCurve(chiller_data[k].COP) ]
    /\ pc' = "export"
    /\ UNCHANGED << inputs, history, i, chiller_data, pump_eff, CT_range, approach,
                    effectiveness, messages, hour, profile, timestamps,
                    total_capacity, active_chillers, remaining_load, records,
                    report, export_status >>

\* Lines 139-150, button pressed: the report is written; pdfkit succeeds or
\* raises, which ends the pass before st.success.
ExportStep ==
    /\ pc = "export"
    /\ generate
    /\ report' = ReportItems(chiller_data, pump_eff, CT_range, approach)
    /\ \E ok \in BOOLEAN : export_status' = IF ok THEN "ok" ELSE "failed"
    /\ pc' = "done"
    /\ UNCHANGED << inputs, history, i, chiller_data, pump_eff, CT_range, approach,
                    effectiveness, messages, hour, profile, timestamps,
                    total_capacity, active_chillers, remaining_load, records,
                    cop_curves >>

\* Line 139, button not pressed: the script ends.
SkipExportStep ==
    /\ pc = "export"
    /\ ~generate
    /\ pc' = "done"
    /\ UNCHANGED << inputs, history, i, chiller_data, pump_eff, CT_range, approach,
                    effectiveness, messages, hour, profile, timestamps,
                    total_capacity, active_chillers, remaining_load, records,
                    cop_curves, report, export_status >>

\* ------------------------------------------------------- user interactions
\* Each interaction changes one widget and reruns the script from the top.
\* A widget change leaves the button unpressed, so the inputs of the new pass
\* differ from those of the pass before.
Rerun(u, n, c, p, b, a) ==
    /\ pc = "done"
    /\ StartPass(u, n, c, p, b, a, FALSE)
    /\ prev_valid' = FALSE
    /\ prev_records' = << >>

\* Line 16: the unit system radio.
ChangeUnit ==
    \E u \in UnitSystems \ {unit_system} :
        Rerun(u, num_chillers, cap_in, power_in, base_load, ambient_temp)

\* Line 20: the slider gains a chiller (its widgets at their defaults) or
\* loses the last one.
ChangeNumChillers ==
    \/ /\ num_chillers < MaxChillers
       /\ Rerun(unit_system, num_chillers + 1, Append(cap_in, DefaultCap),
                Append(power_in, DefaultPower), base_load, ambient_temp)
    \/ /\ num_chillers > 1
       /\ Rerun(unit_system, num_chillers - 1, SubSeq(cap_in, 1, num_chillers - 1),
                SubSeq(power_in, 1, num_chillers - 1), base_load, ambient_temp)

\* Lines 25-26: one number_input of one chiller is edited.
ChangeChiller ==
    \E k \in 1..num_chillers, cp \in ChillerChoices :
        /\ (cp[1] = cap_in[k]) # (cp[2] = power_in[k])
        /\ Rerun(unit_system, num_chillers, [cap_in EXCEPT ![k] = cp[1]],
                 [power_in EXCEPT ![k] = cp[2]], base_load, ambient_temp)

\* Line 82: the base load slider.
ChangeBaseLoad ==
    \E b \in BaseLoadChoices \ {base_load} :
        Rerun(unit_system, num_chillers, cap_in, power_in, b, ambient_temp)

\* Line 83: the ambient temperature slider.
ChangeAmbient ==
    \E a \in AmbientChoices \ {ambient_temp} :
        Rerun(unit_system, num_chillers, cap_in, power_in, base_load, a)

\* Line 139: the button is pressed: a pass with the same inputs as the last.
ClickGenerate ==
    /\ pc = "done"
    /\ StartPass(unit_system, num_chillers, cap_in, power_in, base_load,
                 ambient_temp, TRUE)
    /\ prev_valid' = TRUE
    /\ prev_records' = records

Next ==
    \/ ChillerStep
    \/ PumpStep
    \/ TowerStep
    \/ RecommendStep
    \/ LoadInputsStep
    \/ ProfileStep
    \/ SequencingHeaderStep
    \/ SequencingStep
    \/ ChartStep
    \/ ExportStep
    \/ SkipExportStep
    \/ ChangeUnit
    \/ ChangeNumChillers
    \/ ChangeChiller
    \/ ChangeBaseLoad
    \/ ChangeAmbient
    \/ ClickGenerate

Spec == Init /\ [][Next]_vars

\* ------------------------------------------- the sequencing loop in isolation
\* Lines 106-122 as a function of (profile, chiller_data): the loop starts on
\* an arbitrary profile of AllocHours demands, 0 included, and an arbitrary
\* list of chillers with capacities > 0, as the earlier sections of the script
\* would have left them under SI.
\* Half the default capacity (50 kW): the grain of the capacities and demands.
AllocUnit == DefaultCap \div 2
AllocCaps == { u * AllocUnit : u \in 1..MaxCapUnits }
AllocDemands == { u * AllocUnit : u \in 0..MaxDemandUnits }

InitAlloc ==
    \E n \in 1..MaxChillers :
    \E caps \in [ 1..n -> AllocCaps ] :
    \E prof \in [ 1..AllocHours -> AllocDemands ] :
        LET cd == [ k \in 1..n |-> ChillerRecord("SI", DefaultName(k), caps[k], DefaultPower) ]
        IN  /\ unit_system = "SI"
            /\ num_chillers = n
            /\ cap_in = caps
            /\ power_in = [ k \in 1..n |-> DefaultPower ]
            /\ base_load = DefaultBaseLoad
            /\ ambient_temp = DefaultAmbient
            /\ generate = FALSE
            /\ pc = "sequencing"
            /\ i = 0
            /\ chiller_data = cd
            /\ pump_eff = PumpEfficiencyE4("SI")
            /\ CT_range = CwIn - CwOut
            /\ approach = CwOut - WetBulb
            /\ effectiveness = EffectivenessE4(CwIn - CwOut, CwOut - WetBulb)
            /\ messages = ChillerMessages(cd)
                            \o PlantMessages(PumpEfficiencyE4("SI"),
                                             EffectivenessE4(CwIn - CwOut, CwOut - WetBulb))
            /\ hour = AllocHours
            /\ profile = prof
            /\ timestamps = [ k \in 1..AllocHours |-> Timestamp(k - 1) ]
            /\ total_capacity = SumCapacity(cd)
            /\ active_chillers = << >>
            /\ remaining_load = 0
            /\ records = << >>
            /\ cop_curves = << >>
            /\ report = << >>
            /\ export_status = "none"
            /\ prev_valid = FALSE
            /\ prev_records = << >>

NextAlloc == SequencingStep

SpecAlloc == InitAlloc /\ [][NextAlloc]_vars

\* ------------------------------------------------------------ properties
\* Sum of the assigned loads of an assignment list.
RECURSIVE SumLoads(_)
SumLoads(entries) ==
    IF entries = << >> THEN 0
    ELSE entries[1][2] + SumLoads(Tail(entries))

\* Capacities of the first j chillers of the list.
CapacityOfFirst(j) == SumCapacity(SubSeq(chiller_data, 1, j))

Hours == 1..Len(records)

\* C1: for every hour processed, the sum of the assigned loads is <= the
\* hour's demand, and equals it exactly when the total capacity of all
\* chillers is >= the demand.
C1_SumWithinDemand ==
    \A k \in Hours :
        LET assigned == SumLoads(records[k].entries)
            total    == SumCapacity(chiller_data)
        IN  /\ assigned <= profile[k]
            /\ (assigned = profile[k]) <=> (total >= profile[k])

\* C1 witness: one hour whose positive demand the chillers cover and exactly
\* meet, and one hour whose demand exceeds the total capacity.
C1_Witness ==
    /\ Len(records) = 2
    /\ profile[1] > 0
    /\ SumCapacity(chiller_data) > profile[1]
    /\ SumLoads(records[1].entries) = profile[1]
    /\ SumCapacity(chiller_data) < profile[2]
    /\ SumLoads(records[2].entries) < profile[2]

\* C2: in every hour's assignment list the j-th entry is the j-th chiller of
\* the list, so no chiller appears twice, and its load never exceeds that
\* chiller's capacity.
C2_OncePerChillerWithinCapacity ==
    \A k \in Hours :
        LET e == records[k].entries
        IN  /\ Len(e) <= Len(chiller_data)
            /\ \A j \in 1..Len(e) :
                  /\ e[j][1] = chiller_data[j].Name
                  /\ e[j][2] <= chiller_data[j].Capacity
            /\ \A j1, j2 \in 1..Len(e) : j1 # j2 => e[j1][1] # e[j2][1]

\* C2 witness: an hour in which two chillers are loaded, the first at its
\* capacity and the second below its capacity.
C2_Witness ==
    \E k \in Hours :
        LET e == records[k].entries
        IN  /\ Len(e) = 2
            /\ e[1][2] = chiller_data[1].Capacity
            /\ e[2][2] < chiller_data[2].Capacity
            /\ e[2][2] > 0

\* C3: the assigned chillers are a prefix of the chiller list in list order,
\* every assigned chiller but the last carries its full capacity (so a chiller
\* is loaded only when all chillers before it are full), whatever the COPs
\* are; capacities [100, 100] with demand 150 give [(c1, 100), (c2, 50)].
C3_GreedyInOrder ==
    \A k \in Hours :
        LET e == records[k].entries
        IN  /\ Len(e) <= Len(chiller_data)
            /\ \A j \in 1..Len(e) :
                  /\ e[j][1] = chiller_data[j].Name
                  /\ e[j][3] = chiller_data[j].COP
                  /\ j < Len(e) => e[j][2] = chiller_data[j].Capacity
            /\ ( /\ Len(chiller_data) = 2
                 /\ chiller_data[1].Capacity = 10000
                 /\ chiller_data[2].Capacity = 10000
                 /\ profile[k] = 15000 )
               => ( /\ Len(e) = 2
                    /\ e[1][1] = "Chiller 1" /\ e[1][2] = 10000
                    /\ e[2][1] = "Chiller 2" /\ e[2][2] = 5000 )

\* C3 witness: an hour in which the first chiller is full and the second,
\* whose COP is higher, is only partly loaded.
C3_Witness ==
    \E k \in Hours :
        LET e == records[k].entries
        IN  /\ Len(e) = 2
            /\ chiller_data[2].COP > chiller_data[1].COP
            /\ e[1][2] = chiller_data[1].Capacity
            /\ e[2][2] > 0
            /\ e[2][2] < chiller_data[2].Capacity

\* C4: every entry of an assignment list has a load > 0, the list ends with
\* the chiller at which the load left reached 0 (the chillers before the last
\* entry cannot carry the demand alone), and a demand of 0 gives an empty list.
C4_OnlyLoadedChillers ==
    \A k \in Hours :
        LET e == records[k].entries
        IN  /\ \A j \in 1..Len(e) : e[j][2] > 0
            /\ Len(e) >= 1 => CapacityOfFirst(Len(e) - 1) < profile[k]
            /\ profile[k] = 0 => e = << >>

\* C4 witness: an hour of demand 0 with an empty list, and an hour whose
\* demand the first chiller meets exactly while a second chiller stays out.
C4_Witness ==
    /\ Len(records) = 2
    /\ Len(chiller_data) = 2
    /\ profile[1] = 0
    /\ records[1].entries = << >>
    /\ profile[2] = chiller_data[1].Capacity
    /\ Len(records[2].entries) = 1

\* C5: when the total capacity is below the hour's demand, every chiller is
\* assigned exactly its capacity, the loop ends with remaining_load = demand -
\* total capacity > 0, the hour's output holds the timestamp, the load and the
\* entries and nothing about the shortfall, and the loop goes on with the next
\* hour; capacities [100, 100] with demand 250 give [(c1, 100), (c2, 100)].
C5_ShortfallDropped ==
    /\ \A k \in Hours :
          SumCapacity(chiller_data) < profile[k] =>
              /\ Len(records[k].entries) = Len(chiller_data)
              /\ \A j \in 1..Len(chiller_data) :
                    records[k].entries[j][2] = chiller_data[j].Capacity
              /\ DOMAIN records[k] = {"timestamp", "load", "entries"}
    /\ (records # << >> /\ SumCapacity(chiller_data) < profile[Len(records)]) =>
          /\ active_chillers = records[Len(records)].entries
          /\ remaining_load = profile[Len(records)] - SumCapacity(chiller_data)
          /\ remaining_load > 0
          /\ Len(records) < Len(profile) => (pc = "sequencing" /\ i = Len(records))

\* C5 witness: capacities [100, 100] and demand 250 leave 50 unassigned in the
\* first hour, and the loop is about to process the second hour.
C5_Witness ==
    /\ Len(records) = 1
    /\ Len(profile) = 2
    /\ Len(chiller_data) = 2
    /\ chiller_data[1].Capacity = 10000
    /\ chiller_data[2].Capacity = 10000
    /\ profile[1] = 25000
    /\ records[1].entries[1][2] = 10000
    /\ records[1].entries[2][2] = 10000
    /\ remaining_load = 5000
    /\ pc = "sequencing"

\* Positions of the messages that name chiller k of chiller_data.
MessagesAbout(k) ==
    { m \in 1..Len(messages) : messages[m].name = chiller_data[k].Name }

\* C6: once the recommendations are out, every chiller has exactly one
\* message: the maintenance warning when its cop is < 3.5 and the "operating
\* efficiently" information otherwise; cop 3.4 warns and cop 3.5 does not.
C6_OneMessagePerChiller ==
    messages # << >> =>
        \A k \in 1..Len(chiller_data) :
            /\ Cardinality(MessagesAbout(k)) = 1
            /\ \A m \in MessagesAbout(k) :
                  /\ chiller_data[k].COP < 350 =>
                        (messages[m].kind = "warning" /\ messages[m].text = "maintenance")
                  /\ chiller_data[k].COP >= 350 =>
                        (messages[m].kind = "info" /\ messages[m].text = "efficient")
                  /\ chiller_data[k].COP = 340 => messages[m].kind = "warning"
                  /\ chiller_data[k].COP = 350 => messages[m].kind # "warning"

\* C6 witness: the recommendations are out for a chiller of cop 3.4, warned,
\* and a chiller of cop 3.5, reported efficient.
C6_Witness ==
    /\ messages # << >>
    /\ Len(chiller_data) = 2
    /\ chiller_data[1].COP = 340
    /\ chiller_data[2].COP = 350
    /\ messages[1].kind = "warning"
    /\ messages[2].kind = "info"

\* C7: a pass that runs on the same inputs as the pass before it writes the
\* same per-hour records: at every point a prefix of them, at its end all.
C7_SameInputsSameRecords ==
    prev_valid =>
        /\ Len(records) <= Len(prev_records)
        /\ records = SubSeq(prev_records, 1, Len(records))
        /\ pc = "done" => records = prev_records

\* C7 witness: a second pass on unchanged inputs has ended with all its hours
\* written, some of them with a chiller partly loaded.
C7_Witness ==
    /\ prev_valid
    /\ pc = "done"
    /\ Len(records) = HoursPerDay
    /\ records = prev_records
    /\ \E k \in Hours : Len(records[k].entries) = 2
                          /\ records[k].entries[2][2] < chiller_data[2].Capacity

\* C8: a pass generates the load points of hours 0..23 in increasing order,
\* 24 in all before sequencing starts, and sequencing writes one record per
\* load point in the same order, with that point's timestamp and demand, 24 in
\* all when it has ended.
C8_OneRecordPerHour ==
    /\ Len(profile) = Len(timestamps)
    /\ Len(profile) <= 24
    /\ \A h \in 1..Len(timestamps) : timestamps[h] = << h - 1, 0 >>
    /\ pc \in {"seq_header", "sequencing", "chart", "export", "done"} => Len(profile) = 24
    /\ records # << >> => Len(profile) = 24
    /\ Len(records) <= Len(profile)
    /\ \A k \in Hours :
          /\ records[k].timestamp = timestamps[k]
          /\ records[k].load = profile[k]
    /\ pc = "sequencing" => i = Len(records)
    /\ pc \in {"chart", "export", "done"} => Len(records) = 24

\* C8 witness: a pass has ended with 24 records, the last for 23:00.
C8_Witness ==
    /\ pc = "done"
    /\ Len(profile) = 24
    /\ Len(records) = 24
    /\ records[1].timestamp = << 0, 0 >>
    /\ records[24].timestamp = << 23, 0 >>
    /\ records[15].load = 2 * base_load * (ambient_temp + 20)

\* C9 as stated: the metrics of all chillers are complete before the first
\* load point, all 24 load points before the first hour is sequenced, and all
\* 24 hours are sequenced before the recommendations and before the export.
C9_RecommendAfterSequencing ==
    /\ profile # << >> => Len(chiller_data) = num_chillers
    /\ records # << >> => Len(profile) = 24
    /\ messages # << >> => Len(records) = 24
    /\ (report # << >> \/ export_status # "none") => Len(records) = 24

\* C9 amended: the metrics of all chillers are complete before the
\* recommendations, the recommendations before the first load point, all 24
\* load points before the first hour is sequenced, and all 24 hours are
\* sequenced before the report is exported.
C9_ScriptOrder ==
    /\ messages # << >> => Len(chiller_data) = num_chillers
    /\ profile # << >> => messages # << >>
    /\ records # << >> => Len(profile) = 24
    /\ (report # << >> \/ export_status # "none") =>
          (Len(records) = 24 /\ messages # << >>)

\* C9 witness: a pass with two chillers has exported its report.
C9_Witness ==
    /\ pc = "done"
    /\ export_status = "ok"
    /\ report # << >>
    /\ num_chillers = 2
    /\ Len(chiller_data) = 2
    /\ Len(records) = 24
    /\ messages # << >>

\* Whether capacity/power, not rounded, gives a cop below 3.5 (SI: cap/power;
\* I-P: cap*12000/(power*1000)/3.412).
UnroundedCopBelowThreshold(unit, cap, power) ==
    IF unit = "I-P" THEN cap * 12000 < 11942 * power
    ELSE 2 * cap < 7 * power

\* C10: the maintenance warning is given exactly to the chillers whose
\* unrounded cop is < 3.5, whatever that cop rounds to.
C10_DecisionOnUnroundedCop ==
    messages # << >> =>
        \A k \in 1..Len(chiller_data) :
            (messages[k].kind = "warning") <=>
                UnroundedCopBelowThreshold(unit_system, chiller_data[k].Capacity,
                                           chiller_data[k].Power)

====
